---- MODULE Spec2Model ----
(***************************************************************************)
(* The deep research graph of src/agents/deep/agent.py (three stages run   *)
(* by the graph executor over a State with an id-merging message log), the *)
(* assistant lookup and the main coroutine of src/main.py, build_graph and *)
(* the one-stage graph of src/agents/simple/graph.py.                      *)
(***************************************************************************)
EXTENDS Integers, Sequences, FiniteSets, TLC

VARIABLES
    input,      \* the input State handed to the run (keys may be absent)
    context,    \* the context the caller gives the run: the fields it overrides
    ctx,        \* the run Context (agent.py:44-53)
    state,      \* the graph State (agent.py:56-61)
    nextId,     \* the next fresh message id (a uuid in the code)
    active,     \* nodes triggered for the current step of the executor
    running,    \* nodes invoked and not yet returned
    view,       \* the State the running stage was invoked with
    writes,     \* partial updates returned in this step, not yet merged
    invoked,    \* history: the stages invoked so far, in order
    applied,    \* history: the merges done so far
    status,     \* "running", "done" (END reached) or "failed"
    error,      \* the failure handed to the caller
    apc,        \* position inside run_deep_agent
    sandbox,    \* TRUE while the sandbox of create_sandbox is held
    agentNew,   \* messages the deep agent has added to the ones it was given
    modelCalls, \* thread_model_call_count of ModelCallLimitMiddleware
    toolCalls,  \* thread tool call count of ToolCallLimitMiddleware
    attempt,    \* retries already spent on the current model invocation
    onModel,    \* the model the current invocation is being tried on
    tried,      \* history: the backend calls of the current invocation
    replyFrom,  \* history: where the reply of the invocation came from
    retryMode,  \* what ModelRetryMiddleware does once retries are spent
    limitHit,   \* history: which call limit stopped something
    system_prompt, \* the instructions the deep agent was built with
    model,      \* the chat model run_deep_agent has initialised
    tasks,      \* the researcher delegate tasks of the current tool step
    substituted, \* history: an earlier invocation was answered by the fallback
    assistants, \* the assistants the remote service holds
    cpc,        \* each caller's position in get_or_create_assistant
    cname,      \* each caller's `name` argument
    existing,   \* each caller's result of assistants.search
    calls,      \* history: the calls that have returned
    ncalls,     \* history: the calls each caller has begun
    overlapped, \* history: a call began while another was in progress
    config,     \* the config dict a caller of build_graph holds
    built,      \* history: the graphs build_graph has returned
    mpc,        \* the position of main
    midx,       \* which of main's two assistants is being handled
    mexisting,  \* main's result of assistants.search
    handles,    \* the assistants main has resolved, in order
    runs,       \* history: the runs main has started
    mfail,      \* the failure that ended main
    sinput,     \* the input messages of a run of the simple graph
    smessages,  \* State.messages of the simple graph (graph.py:44)
    spc,        \* the position of the run of the simple graph
    scalls,     \* history: how often call_model was invoked
    spending    \* the update call_model returned, not yet merged

vars == << input, context, ctx, state, nextId, active, running, view, writes, invoked,
           applied, status, error, apc, sandbox, agentNew, modelCalls,
           toolCalls, attempt, onModel, tried, replyFrom, retryMode, limitHit,
           system_prompt, model, tasks, substituted, assistants, cpc, cname, existing, calls,
           ncalls, overlapped, config, built, mpc, midx, mexisting, handles, runs,
           mfail, sinput, smessages, spc, scalls, spending >>

clientVars == << assistants, cpc, cname, existing, calls, ncalls, overlapped >>

buildVars == << config, built >>

mainVars == << mpc, midx, mexisting, handles, runs, mfail >>

simpleVars == << sinput, smessages, spc, scalls, spending >>

graphVars == << input, context, ctx, state, nextId, active, running, view, writes,
                invoked, applied, status, error >>

agentVars == << apc, sandbox, agentNew, modelCalls, toolCalls, attempt,
                onModel, tried, replyFrom, retryMode, limitHit, system_prompt,
                model, tasks, substituted >>

\* what a step of a run leaves alone, and what a step of the client does
outerVars == << clientVars, buildVars, mainVars, simpleVars >>

notClientVars == << graphVars, agentVars, buildVars, mainVars, simpleVars >>

notBuildVars == << graphVars, agentVars, clientVars, mainVars, simpleVars >>

notMainVars == << graphVars, agentVars, buildVars, simpleVars, cpc, cname,
                  existing, calls, ncalls, overlapped >>

notSimpleVars == << graphVars, agentVars, clientVars, buildVars, mainVars >>

(***************************************************************************)
(* Bounds of the model.                                                    *)
(***************************************************************************)
MaxInputMsgs == 1   \* messages in the input State
MaxBatch == 2       \* task tool calls in one model reply
MaxIter == 2        \* iterations a researcher is followed for
MaxCalls == 2       \* calls of get_or_create_assistant by one caller
MaxBuilds == 2      \* calls of build_graph
MaxChunks == 2      \* chunks of one event stream
MaxSimpleMsgs == 2  \* messages in the input of the simple graph
NumCallers == 2     \* callers of get_or_create_assistant

(***************************************************************************)
(* Program constants.                                                      *)
(***************************************************************************)
DEFAULT_MODEL_NAME == "claude-sonnet-4-5-20250929"

DEFAULT_TEMPERATURE == "0.0"

DEFAULT_MAX_CONCURRENT_RESEARCH_UNITS == 3
DEFAULT_MAX_RESEARCHER_ITERATIONS == 3
ModelThreadLimit == 10
ToolThreadLimit == 10
MaxRetries == 2

Callers == 1..NumCallers

START == "__start__"
END == "__end__"

Query == "What is LangGraph?"

(***************************************************************************)
(* Messages.  id = 0 is a message without an id (id=None in the code).     *)
(***************************************************************************)
Msg(i, r, c) == [id |-> i, role |-> r, content |-> c]

HumanMessage(c) == Msg(0, "human", c)

RECURSIVE NumMissing(_)
NumMissing(s) ==
    IF s = << >> THEN 0
    ELSE (IF Head(s).id = 0 THEN 1 ELSE 0) + NumMissing(Tail(s))

\* add_messages gives every message without an id a fresh one
RECURSIVE AssignIds(_, _)
AssignIds(s, base) ==
    IF s = << >> THEN << >>
    ELSE IF Head(s).id = 0
         THEN << [Head(s) EXCEPT !.id = base] >> \o AssignIds(Tail(s), base + 1)
         ELSE << Head(s) >> \o AssignIds(Tail(s), base)

IndexOfId(s, i) ==
    IF \E k \in 1..Len(s) : s[k].id = i
    THEN CHOOSE k \in 1..Len(s) : s[k].id = i /\ \A j \in 1..(k-1) : s[j].id # i
    ELSE 0

\* a faulty variant: the reducer of the simple graph (operator.add)
MergeById_concat(merged, right) == merged \o right

\* the merge loop of add_messages: an update message whose id is already in
\* the list replaces that entry in place, any other is appended
RECURSIVE MergeById(_, _)
MergeById(merged, right) ==
    IF right = << >> THEN merged
    ELSE LET m == Head(right)
             k == IndexOfId(merged, m.id)
         IN  MergeById(IF k > 0 THEN [merged EXCEPT ![k] = m]
                                ELSE Append(merged, m),
                       Tail(right))

add_messages(left, right, base) == MergeById(left, AssignIds(right, base))

(***************************************************************************)
(* State and partial updates: `has` is the set of keys present.            *)
(***************************************************************************)
Fields == {"messages", "query", "research_complete"}

Update(h, msgs, rc) == [has |-> h, messages |-> msgs, research_complete |-> rc]

\* the channel write of the executor: messages through its reducer, the other
\* fields overwritten, keys absent from the update left alone
Merge(s, u, base) ==
    [has |-> s.has \cup u.has,
     messages |-> IF "messages" \in u.has
                  THEN add_messages(s.messages, u.messages, base)
                  ELSE s.messages,
     query |-> s.query,
     research_complete |-> IF "research_complete" \in u.has
                           THEN u.research_complete
                           ELSE s.research_complete]

\* the update as it is once the reducer has given its messages ids
WithIds(u, base) == [u EXCEPT !.messages = AssignIds(u.messages, base)]

(***************************************************************************)
(* The graph of build_graph.                                               *)
(***************************************************************************)
Stages == {"prepare_research", "run_deep_agent", "finalize_research"}

\* a faulty variant: run_deep_agent also triggered from START
Edges_fanout ==
    { <<START, "prepare_research">>, <<START, "run_deep_agent">>,
      <<"prepare_research", "run_deep_agent">>,
      <<"run_deep_agent", "finalize_research">>,
      <<"finalize_research", END>> }

Edges ==
    { <<START, "prepare_research">>,
      <<"prepare_research", "run_deep_agent">>,
      <<"run_deep_agent", "finalize_research">>,
      <<"finalize_research", END>> }

Succ(ns) == { e[2] : e \in { d \in Edges : d[1] \in ns } }

(***************************************************************************)
(* Inputs of a run.                                                        *)
(***************************************************************************)
InputMessages ==
    { [k \in 1..n |-> HumanMessage("Hello")] : n \in 0..MaxInputMsgs }

Inputs ==
    { [has |-> {"messages"} \cup q[1] \cup rc, messages |-> ms,
       query |-> q[2], research_complete |-> rc # {}] :
        ms \in InputMessages,
        q \in { <<{}, "">>, <<{"query"}, "">>, <<{"query"}, Query>> },
        rc \in { {}, {"research_complete"} } }

\* d.get(f, default) of a dict, state.get(f, default) of a State
Get(s, f, default) == IF f \in s.has THEN s[f] ELSE default

\* the Context dataclass
Context(mn, t, mc, mi) ==
    [model_name |-> mn, temperature |-> t,
     max_concurrent_research_units |-> mc, max_researcher_iterations |-> mi]

\* the context a caller gives: the fields it overrides and their values
Overrides(keys, mn, t, mc, mi) ==
    [has |-> keys, model_name |-> mn, temperature |-> t,
     max_concurrent_research_units |-> mc, max_researcher_iterations |-> mi]

NoOverrides == Overrides({}, "", "", 0, 0)

\* the contexts of main.py:52-55 and main.py:61-64, no context, and one that
\* sets the two ceilings
CallerContexts ==
    { NoOverrides,
      Overrides({"model_name", "temperature"}, "claude-sonnet-4-5-20250929", "0.9", 0, 0),
      Overrides({"model_name", "temperature"}, "gpt-4o-mini", "0.1", 0, 0),
      Overrides({"max_concurrent_research_units", "max_researcher_iterations"},
                "", "", 1, 1) }

\* a faulty variant: a field the caller leaves out is left empty
Resolve_empty(o) ==
    Context(o.model_name, o.temperature, o.max_concurrent_research_units,
            o.max_researcher_iterations)

\* Context(**context): a field the caller leaves out takes its default
Resolve(o) ==
    Context(Get(o, "model_name", DEFAULT_MODEL_NAME),
            Get(o, "temperature", DEFAULT_TEMPERATURE),
            Get(o, "max_concurrent_research_units",
                DEFAULT_MAX_CONCURRENT_RESEARCH_UNITS),
            Get(o, "max_researcher_iterations", DEFAULT_MAX_RESEARCHER_ITERATIONS))

Contexts == { Resolve(o) : o \in CallerContexts }

\* _build_instructions: the two ceilings of the Context are written into the
\* text of the orchestrator's instructions
build_instructions(max_concurrent, max_iterations) ==
    [max_concurrent_research_units |-> max_concurrent,
     max_researcher_iterations |-> max_iterations]

NoModel == [model |-> "", temperature |-> ""]

\* the agent state outside an invocation of the deep agent
AgentReset ==
    [agentNew |-> 0, modelCalls |-> 0, toolCalls |-> 0, limitHit |-> {}]

NoUpdate == Update({}, << >>, FALSE)

\* the delegate tasks of a tool step: how many tool calls the reply asked
\* for, how many researchers are running at each iteration count, how many
\* have returned
Tasks(req, run, done) == [requested |-> req, running |-> run, done |-> done]

NoneRunning == [j \in 0..MaxIter |-> 0]

NoTasks == Tasks(0, NoneRunning, 0)

NoPrompt == build_instructions(0, 0)

NoError == [stage |-> "", kind |-> ""]

\* the executor writes the input into the channels before the first stage
InitState(inp) ==
    [has |-> inp.has,
     messages |-> add_messages(<< >>, inp.messages, 1),
     query |-> inp.query,
     research_complete |-> inp.research_complete]

\* a Python value: a bool, an int, a str or None
Value(kind, n, str) == [kind |-> kind, n |-> n, s |-> str]

True == Value("bool", 1, "")

False == Value("bool", 0, "")

None == Value("none", 0, "")

\* a dict with string keys: the keys it holds and their values
Dict(keys, debug) == [has |-> keys, debug |-> debug]

\* a RunnableConfig: `configurable`, when present, is a dict
RunnableConfig(keys, configurable) == [has |-> keys, configurable |-> configurable]

EmptyDict == Dict({}, None)

\* config = {"configurable": {"debug": False}}
TestConfig == RunnableConfig({"configurable"}, Dict({"debug"}, False))

BuildIdle ==
    /\ config = TestConfig
    /\ built = << >>

SimpleIdle ==
    /\ sinput = << >>
    /\ smessages = << >>
    /\ spc = "idle"
    /\ scalls = 0
    /\ spending = << >>

NoFailure == [cause |-> "none", runs |-> 0]

MainIdle ==
    /\ mpc = "idle"
    /\ midx = 1
    /\ mexisting = {}
    /\ handles = << >>
    /\ runs = << >>
    /\ mfail = NoFailure

ClientIdle ==
    /\ assistants = {}
    /\ cpc = [c \in Callers |-> "idle"]
    /\ cname = [c \in Callers |-> ""]
    /\ existing = [c \in Callers |-> {}]
    /\ calls = << >>
    /\ ncalls = [c \in Callers |-> 0]
    /\ overlapped = FALSE

AgentIdle ==
    /\ apc = "idle"
    /\ sandbox = FALSE
    /\ agentNew = 0
    /\ modelCalls = 0
    /\ toolCalls = 0
    /\ attempt = 0
    /\ onModel = "primary"
    /\ tried = << >>
    /\ replyFrom = "none"
    /\ limitHit = {}
    /\ system_prompt = NoPrompt
    /\ model = NoModel
    /\ tasks = NoTasks
    /\ substituted = FALSE

DefaultContext == Resolve(NoOverrides)

ExampleInput ==
    [has |-> {"messages", "query"}, messages |-> << >>, query |-> Query,
     research_complete |-> FALSE]

\* a run starts from any input with the default Context, or from the example
\* input with any Context; ModelRetryMiddleware() is built with the library's
\* default on_failure, and both behaviours the library has are covered
Init ==
    /\ \/ /\ input \in Inputs
          /\ context = NoOverrides
          /\ retryMode = "continue"
       \/ /\ input = ExampleInput
          /\ context \in CallerContexts
          /\ retryMode \in {"continue", "error"}
    /\ ctx = Resolve(context)
    /\ state = InitState(input)
    /\ nextId = 1 + NumMissing(input.messages)
    /\ active = Succ({START})
    /\ running = {}
    /\ view = state
    /\ writes = << >>
    /\ invoked = << >>
    /\ applied = << >>
    /\ status = "running"
    /\ error = NoError
    /\ AgentIdle
    /\ ClientIdle
    /\ BuildIdle
    /\ MainIdle
    /\ SimpleIdle

(***************************************************************************)
(* The graph executor.                                                     *)
(***************************************************************************)
Returned == { writes[k].stage : k \in 1..Len(writes) }

\* a triggered stage is invoked with the State as merged so far
StartNode(n) ==
    /\ UNCHANGED outerVars
    /\ UNCHANGED << substituted, model >>
    /\ status = "running"
    /\ n \in active
    /\ n \notin running
    /\ n \notin Returned
    /\ running' = running \cup {n}
    /\ view' = state
    /\ invoked' = Append(invoked, n)
    /\ apc' = IF n = "run_deep_agent" THEN "start" ELSE apc
    /\ system_prompt' =
          IF n = "run_deep_agent"
          THEN build_instructions(ctx.max_concurrent_research_units,
                                  ctx.max_researcher_iterations)
          ELSE system_prompt
    /\ UNCHANGED << input, context, ctx, state, nextId, active, writes, applied, status,
                    error, sandbox, agentNew, modelCalls, toolCalls, attempt,
                    onModel, tried, replyFrom, retryMode, limitHit, tasks >>

\* a stage returns its partial update
Return(n, u) ==
    /\ running' = running \ {n}
    /\ writes' = Append(writes, [stage |-> n, update |-> u])

RECURSIVE ApplyWrites(_, _, _)
ApplyWrites(s, ws, base) ==
    IF ws = << >> THEN [state |-> s, nextId |-> base, log |-> << >>]
    ELSE LET u == ws[1].update
             t == Merge(s, u, base)
             b == IF "messages" \in u.has THEN base + NumMissing(u.messages)
                                          ELSE base
             r == ApplyWrites(t, Tail(ws), b)
         IN  [r EXCEPT !.log = << [stage |-> ws[1].stage, before |-> s,
                                   update |-> WithIds(u, base), after |-> t] >>
                                \o r.log]

\* all stages of the step have returned: their updates are merged and the
\* stages their edges lead to are triggered
EndStep ==
    /\ UNCHANGED outerVars
    /\ status = "running"
    /\ active # {}
    /\ running = {}
    /\ Returned = active
    /\ LET r == ApplyWrites(state, writes, nextId)
       IN  /\ state' = r.state
           /\ nextId' = r.nextId
           /\ applied' = applied \o r.log
    /\ writes' = << >>
    /\ active' = Succ(active) \ {END}
    /\ status' = IF active' = {} THEN "done" ELSE "running"
    /\ UNCHANGED << input, context, ctx, running, view, invoked, error >>
    /\ UNCHANGED agentVars

\* a faulty variant: the failure is swallowed and the stage returns nothing
StageFails_swallow(n, kind) ==
    /\ Return(n, NoUpdate)
    /\ UNCHANGED << status, error >>

\* an exception leaves the stage: nothing in the stage catches it, the
\* executor stops the run and raises it to the caller, naming the stage
StageFails(n, kind) ==
    /\ status' = "failed"
    /\ error' = [stage |-> n, kind |-> kind]
    /\ UNCHANGED << running, writes >>

\* a faulty variant: the sandbox is not released when the block is left
Released_leak(held) == held

\* with create_sandbox(...) as sandbox_backend: a context manager; whichever
\* way the block is left (its end, an exception, a cancellation raised at an
\* await inside it), the manager's exit runs and the sandbox is released
Released(held) == FALSE

\* the positions of run_deep_agent that lie inside the with block
InsideWith ==
    {"sandboxed", "before_model", "model", "after_model", "tools", "agent_done"}

\* a faulty variant: the interrupted stage has already written into the State
OnCancel_partial(s, n) ==
    [s EXCEPT !.has = @ \cup {"research_complete"}, !.research_complete = TRUE]

\* what an interrupted stage leaves in the State: a stage reads the State it
\* is given and writes only through the dict it returns, so nothing
OnCancel(s, n) == s

\* the run is cancelled while stage n is executing: the cancellation is
\* raised inside the stage, which returns no update; the executor merges
\* nothing and triggers nothing; the deep agent and its delegate tasks go
\* with the stage
Cancel(n) ==
    /\ UNCHANGED outerVars
    /\ status = "running"
    /\ n \in running
    /\ status' = "cancelled"
    /\ error' = [stage |-> n, kind |-> "cancelled"]
    /\ state' = OnCancel(state, n)
    /\ sandbox' = Released(sandbox)
    /\ apc' = IF n = "run_deep_agent" THEN "cancelled" ELSE apc
    /\ agentNew' = AgentReset.agentNew
    /\ modelCalls' = AgentReset.modelCalls
    /\ toolCalls' = AgentReset.toolCalls
    /\ limitHit' = AgentReset.limitHit
    /\ attempt' = 0
    /\ onModel' = "primary"
    /\ tried' = << >>
    /\ replyFrom' = "none"
    /\ tasks' = NoTasks
    /\ substituted' = FALSE
    /\ UNCHANGED << input, context, ctx, nextId, active, running, view, writes, invoked,
                    applied, retryMode, system_prompt, model >>

(***************************************************************************)
(* prepare_research and finalize_research.                                 *)
(***************************************************************************)
\* a faulty variant: the initial message is never built
prepare_research_update_noseed(s) ==
    Update({"messages", "research_complete"}, Get(s, "messages", << >>), FALSE)

\* a faulty variant: prepare_research marks the research complete
prepare_research_update_true(s) ==
    LET query == Get(s, "query", "")
        messages == Get(s, "messages", << >>)
    IN  Update({"messages", "research_complete"},
               IF query # "" /\ messages = << >>
               THEN << HumanMessage(query) >> ELSE messages,
               TRUE)

\* a faulty variant: the query is made a message whenever there is a query
prepare_research_update_always(s) ==
    LET query == Get(s, "query", "")
        messages == Get(s, "messages", << >>)
    IN  Update({"messages", "research_complete"},
               IF query # "" THEN << HumanMessage(query) >> ELSE messages,
               FALSE)

prepare_research_update(s) ==
    LET query == Get(s, "query", "")
        messages == Get(s, "messages", << >>)
    IN  Update({"messages", "research_complete"},
               IF query # "" /\ messages = << >>
               THEN << HumanMessage(query) >> ELSE messages,
               FALSE)

prepare_research ==
    /\ UNCHANGED outerVars
    /\ status = "running"
    /\ "prepare_research" \in running
    /\ Return("prepare_research", prepare_research_update(view))
    /\ UNCHANGED << input, context, ctx, state, nextId, active, view, invoked, applied,
                    status, error >>
    /\ UNCHANGED agentVars

finalize_research_update == Update({"research_complete"}, << >>, TRUE)

finalize_research ==
    /\ UNCHANGED outerVars
    /\ status = "running"
    /\ "finalize_research" \in running
    /\ Return("finalize_research", finalize_research_update)
    /\ UNCHANGED << input, context, ctx, state, nextId, active, view, invoked, applied,
                    status, error >>
    /\ UNCHANGED agentVars

(***************************************************************************)
(* run_deep_agent.                                                         *)
(***************************************************************************)
InAgent(at) ==
    /\ status = "running"
    /\ "run_deep_agent" \in running
    /\ apc = at

Min(a, b) == IF a < b THEN a ELSE b

Requested(k) == Tasks(k, NoneRunning, 0)

RECURSIVE SumUpTo(_, _)
SumUpTo(f, j) == IF j < 0 THEN 0 ELSE f[j] + SumUpTo(f, j - 1)

\* the researcher delegate tasks executing now
InFlight == SumUpTo(tasks.running, MaxIter)

\* model = init_chat_model(model=model_name, temperature=temperature)
init_chat_model(model_name, temperature) ==
    [model |-> model_name, temperature |-> temperature]

\* tools = await get_all_tools(), then the model is initialised
get_all_tools_returns ==
    /\ UNCHANGED outerVars
    /\ UNCHANGED substituted
    /\ InAgent("start")
    /\ model' = init_chat_model(ctx.model_name, ctx.temperature)
    /\ apc' = "tools_loaded"
    /\ UNCHANGED graphVars
    /\ UNCHANGED << sandbox, agentNew, modelCalls, toolCalls, attempt, onModel,
                    tried, replyFrom, retryMode, limitHit, system_prompt, tasks >>

get_all_tools_raises ==
    /\ UNCHANGED outerVars
    /\ UNCHANGED << substituted, model >>
    /\ InAgent("start")
    /\ StageFails("run_deep_agent", "get_all_tools")
    /\ apc' = "raised"
    /\ UNCHANGED << input, context, ctx, state, nextId, active, view, invoked, applied >>
    /\ UNCHANGED << sandbox, agentNew, modelCalls, toolCalls, attempt, onModel,
                    tried, replyFrom, retryMode, limitHit, system_prompt, tasks >>

\* with create_sandbox(...) as sandbox_backend: the block is entered
create_sandbox_enters ==
    /\ UNCHANGED outerVars
    /\ UNCHANGED << substituted, model >>
    /\ InAgent("tools_loaded")
    /\ sandbox' = TRUE
    /\ agentNew' = 0
    /\ apc' = "sandboxed"
    /\ UNCHANGED graphVars
    /\ UNCHANGED << modelCalls, toolCalls, attempt, onModel, tried, replyFrom,
                    retryMode, limitHit, system_prompt, tasks >>

create_sandbox_raises ==
    /\ UNCHANGED outerVars
    /\ UNCHANGED << substituted, model >>
    /\ InAgent("tools_loaded")
    /\ StageFails("run_deep_agent", "create_sandbox")
    /\ apc' = "raised"
    /\ UNCHANGED << input, context, ctx, state, nextId, active, view, invoked, applied >>
    /\ UNCHANGED << sandbox, agentNew, modelCalls, toolCalls, attempt, onModel,
                    tried, replyFrom, retryMode, limitHit, system_prompt, tasks >>

\* deep_agent = create_deep_agent(...): the agent is built inside the block
\* and invoked with state["messages"]
create_deep_agent_returns ==
    /\ UNCHANGED outerVars
    /\ InAgent("sandboxed")
    /\ apc' = "before_model"
    /\ UNCHANGED graphVars
    /\ UNCHANGED << sandbox, agentNew, modelCalls, toolCalls, attempt, onModel,
                    tried, replyFrom, retryMode, limitHit, system_prompt, tasks,
                    substituted, model >>

create_deep_agent_raises ==
    /\ UNCHANGED outerVars
    /\ InAgent("sandboxed")
    /\ sandbox' = Released(sandbox)
    /\ apc' = "raised"
    /\ StageFails("run_deep_agent", "create_deep_agent")
    /\ UNCHANGED << input, context, ctx, state, nextId, active, view, invoked, applied >>
    /\ UNCHANGED << agentNew, modelCalls, toolCalls, attempt, onModel, tried,
                    replyFrom, retryMode, limitHit, system_prompt, tasks,
                    substituted, model >>

\* ModelCallLimitMiddleware(thread_limit=10): no exit_behavior is given, so
\* the agent is ended with a message saying the limit was exceeded
ModelLimitExit == "end"

\* a faulty variant: the limit is tested after the call it should prevent
ModelLimitReached_late == modelCalls > ModelThreadLimit

ModelLimitReached == modelCalls >= ModelThreadLimit

\* before each model step ModelCallLimitMiddleware looks at the count
before_model ==
    /\ UNCHANGED outerVars
    /\ UNCHANGED << substituted, model >>
    /\ InAgent("before_model")
    /\ IF ModelLimitReached
       THEN /\ limitHit' = limitHit \cup {"model"}
            /\ IF ModelLimitExit = "end"
               THEN /\ agentNew' = agentNew + 1
                    /\ apc' = "agent_done"
                    /\ UNCHANGED << sandbox, status, error >>
               ELSE /\ sandbox' = Released(sandbox)
                    /\ apc' = "raised"
                    /\ StageFails("run_deep_agent", "ModelCallLimitExceeded")
                    /\ UNCHANGED agentNew
            /\ UNCHANGED << attempt, onModel, tried, replyFrom >>
       ELSE /\ apc' = "model"
            /\ attempt' = 0
            /\ onModel' = "primary"
            /\ tried' = << >>
            /\ replyFrom' = "none"
            /\ UNCHANGED << sandbox, agentNew, limitHit, status, error >>
    /\ UNCHANGED << input, context, ctx, state, nextId, active, running, view, writes,
                    invoked, applied >>
    /\ UNCHANGED << modelCalls, toolCalls, retryMode, system_prompt, tasks >>

Call(m, ok) == [model |-> m, ok |-> ok]

\* the model backend answers: a final answer (k = 0) or k task tool calls
model_call_returns ==
    /\ UNCHANGED outerVars
    /\ UNCHANGED << substituted, model >>
    /\ InAgent("model")
    /\ \E k \in 0..MaxBatch :
          tasks' = Requested(k)
    /\ tried' = Append(tried, Call(onModel, TRUE))
    /\ replyFrom' = onModel
    /\ agentNew' = agentNew + 1
    /\ apc' = "after_model"
    /\ UNCHANGED graphVars
    /\ UNCHANGED << sandbox, modelCalls, toolCalls, attempt, onModel, retryMode,
                    limitHit, system_prompt >>

\* a faulty variant: the fallback wraps the backend and the retry wraps the
\* fallback, so the first failure of the primary goes to the fallback
AfterFailure_fallback_first(m, att, mode) ==
    IF m = "primary" THEN "fallback"
    ELSE IF att < MaxRetries THEN "retry"
    ELSE IF mode = "continue" THEN "message" ELSE "raise"

\* middleware=[..., ModelFallbackMiddleware, ModelRetryMiddleware, ...]: the
\* earlier middleware is the outer one, so a failed call is first retried on
\* the same model; with the retries spent ModelRetryMiddleware either answers
\* with an error message or raises, and only a raise reaches the fallback
AfterFailure(m, att, mode) ==
    IF att < MaxRetries THEN "retry"
    ELSE IF mode = "continue" THEN "message"
    ELSE IF m = "primary" THEN "fallback" ELSE "raise"

\* the model backend fails
model_call_fails ==
    /\ UNCHANGED outerVars
    /\ UNCHANGED << substituted, model >>
    /\ InAgent("model")
    /\ tried' = Append(tried, Call(onModel, FALSE))
    /\ LET a == AfterFailure(onModel, attempt, retryMode)
       IN  CASE a = "retry" ->
                  /\ attempt' = attempt + 1
                  /\ UNCHANGED << onModel, replyFrom, agentNew, tasks, apc,
                                  sandbox, status, error >>
             [] a = "fallback" ->
                  /\ attempt' = 0
                  /\ onModel' = "fallback"
                  /\ UNCHANGED << replyFrom, agentNew, tasks, apc, sandbox,
                                  status, error >>
             [] a = "message" ->
                  /\ replyFrom' = "error_message"
                  /\ agentNew' = agentNew + 1
                  /\ tasks' = Requested(0)
                  /\ apc' = "after_model"
                  /\ UNCHANGED << attempt, onModel, sandbox, status, error >>
             [] OTHER ->
                  /\ sandbox' = Released(sandbox)
                  /\ apc' = "raised"
                  /\ StageFails("run_deep_agent", "model")
                  /\ UNCHANGED << attempt, onModel, replyFrom, agentNew, tasks >>
    /\ UNCHANGED << input, context, ctx, state, nextId, active, running, view, writes,
                    invoked, applied >>
    /\ UNCHANGED << modelCalls, toolCalls, retryMode, limitHit, system_prompt >>

\* ToolCallLimitMiddleware(thread_limit=10): of the k tool calls of a reply
\* only as many as the limit leaves room for are executed
ToolsAllowed(k) == Min(k, ToolThreadLimit - toolCalls)

\* after each model step the limit middlewares count the step and its tool
\* calls; refused tool calls are answered with an error message and the
\* agent goes on
after_model ==
    /\ UNCHANGED outerVars
    /\ InAgent("after_model")
    /\ modelCalls' = modelCalls + 1
    /\ LET k == tasks.requested
           a == ToolsAllowed(k)
       IN  /\ toolCalls' = toolCalls + a
           /\ tasks' = Tasks(0, [NoneRunning EXCEPT ![0] = a], 0)
           /\ agentNew' = agentNew + (k - a)
           /\ limitHit' = IF a < k THEN limitHit \cup {"tool"} ELSE limitHit
           /\ apc' = IF k = 0 THEN "agent_done"
                     ELSE IF a = 0 THEN "before_model" ELSE "tools"
    /\ UNCHANGED graphVars
    /\ tried' = << >>
    /\ replyFrom' = "none"
    /\ substituted' = (substituted \/ replyFrom = "fallback")
    /\ UNCHANGED << sandbox, attempt, onModel, retryMode, system_prompt, model >>

\* the researcher sub-agent goes round again whenever its model asks for a
\* tool: max_researcher_iterations is in the instructions only
MayIterate(j) == TRUE

\* a researcher delegate task that has done j rounds does one more
task_iterates(j) ==
    /\ UNCHANGED outerVars
    /\ UNCHANGED << substituted, model >>
    /\ InAgent("tools")
    /\ tasks.running[j] > 0
    /\ j < MaxIter
    /\ MayIterate(j)
    /\ tasks' = [tasks EXCEPT !.running[j] = @ - 1, !.running[j + 1] = @ + 1]
    /\ UNCHANGED graphVars
    /\ UNCHANGED << apc, sandbox, agentNew, modelCalls, toolCalls, attempt,
                    onModel, tried, replyFrom, retryMode, limitHit,
                    system_prompt >>

\* a researcher delegate task returns its result after j rounds
task_returns(j) ==
    /\ UNCHANGED outerVars
    /\ UNCHANGED << substituted, model >>
    /\ InAgent("tools")
    /\ tasks.running[j] > 0
    /\ j >= 1
    /\ tasks' = [tasks EXCEPT !.running[j] = @ - 1, !.done = @ + 1]
    /\ UNCHANGED graphVars
    /\ UNCHANGED << apc, sandbox, agentNew, modelCalls, toolCalls, attempt,
                    onModel, tried, replyFrom, retryMode, limitHit,
                    system_prompt >>

\* every tool call of the reply has its tool message: back to the model
tools_done ==
    /\ UNCHANGED outerVars
    /\ UNCHANGED << substituted, model >>
    /\ InAgent("tools")
    /\ InFlight = 0
    /\ agentNew' = agentNew + tasks.done
    /\ tasks' = NoTasks
    /\ apc' = "before_model"
    /\ UNCHANGED graphVars
    /\ UNCHANGED << sandbox, modelCalls, toolCalls, attempt, onModel, tried,
                    replyFrom, retryMode, limitHit, system_prompt >>

AgentMessage(i) == Msg(i, "ai", "research")

\* result["messages"]: the messages the agent was given and, after them, the
\* ones it added
AgentResult(given, n, base) == given \o [k \in 1..n |-> AgentMessage(base + k - 1)]

run_deep_agent_update(msgs) ==
    Update({"messages", "research_complete"}, msgs, TRUE)

\* the with block is left and the stage returns its update
run_deep_agent_returns ==
    /\ UNCHANGED outerVars
    /\ InAgent("agent_done")
    /\ sandbox' = Released(sandbox)
    /\ apc' = "idle"
    /\ Return("run_deep_agent",
              run_deep_agent_update(AgentResult(view.messages, agentNew, nextId)))
    /\ nextId' = nextId + agentNew
    /\ agentNew' = AgentReset.agentNew
    /\ modelCalls' = AgentReset.modelCalls
    /\ toolCalls' = AgentReset.toolCalls
    /\ limitHit' = AgentReset.limitHit
    /\ substituted' = FALSE
    /\ UNCHANGED << input, context, ctx, state, active, view, invoked, applied, status,
                    error >>
    /\ UNCHANGED << attempt, onModel, tried, replyFrom, retryMode,
                    system_prompt, model, tasks >>

(***************************************************************************)
(* The run.                                                                *)
(***************************************************************************)
Next ==
    \/ \E n \in Stages : StartNode(n)
    \/ prepare_research
    \/ get_all_tools_returns
    \/ get_all_tools_raises
    \/ create_sandbox_enters
    \/ create_sandbox_raises
    \/ create_deep_agent_returns
    \/ create_deep_agent_raises
    \/ before_model
    \/ model_call_returns
    \/ model_call_fails
    \/ after_model
    \/ \E j \in 0..MaxIter : task_iterates(j)
    \/ \E j \in 0..MaxIter : task_returns(j)
    \/ tools_done
    \/ run_deep_agent_returns
    \/ finalize_research
    \/ EndStep
    \/ \E n \in Stages : Cancel(n)

Spec == Init /\ [][Next]_vars

(***************************************************************************)
(* get_or_create_assistant (src/main.py) against the remote service.       *)
(***************************************************************************)
Names == {"Creative Assistant", "Precise Assistant"}

\* an assistant of the service: its name is a field of its own, and its
\* metadata may or may not hold a "name" key ("" when it does not)
Assistant(i, n, g, mn) ==
    [assistant_id |-> i, name |-> n, graph_id |-> g, metadata_name |-> mn]

\* the service before the program runs: empty, or holding an assistant that
\* was created with its name in its metadata as well
InitialAssistants ==
    { {}, { Assistant(1, "Creative Assistant", "deep", "Creative Assistant") } }

\* client.assistants.search(metadata={"name": name}): the assistants whose
\* metadata holds that name
Search(name) == { a \in assistants : a.metadata_name = name }

\* existing[0]: the service lists the newest assistant first
First(found) == CHOOSE a \in found : \A b \in found : a.assistant_id >= b.assistant_id

NewId == 1 + Cardinality(assistants)

\* client.assistants.create(graph_id=..., config=..., context=..., name=name):
\* no metadata is given
Created(name, graph_id) == Assistant(NewId, name, graph_id, "")

InCall(c) == cpc[c] # "idle"

ClientInit ==
    /\ input = ExampleInput
    /\ context = NoOverrides
    /\ ctx = DefaultContext
    /\ retryMode = "continue"
    /\ state = InitState(input)
    /\ nextId = 1
    /\ active = {}
    /\ running = {}
    /\ view = state
    /\ writes = << >>
    /\ invoked = << >>
    /\ applied = << >>
    /\ status = "idle"
    /\ error = NoError
    /\ AgentIdle
    /\ assistants \in InitialAssistants
    /\ cpc = [c \in Callers |-> "idle"]
    /\ cname = [c \in Callers |-> ""]
    /\ existing = [c \in Callers |-> {}]
    /\ calls = << >>
    /\ ncalls = [c \in Callers |-> 0]
    /\ overlapped = FALSE
    /\ BuildIdle
    /\ MainIdle
    /\ SimpleIdle

\* existing = await client.assistants.search(metadata={"name": name})
assistants_search(c, name) ==
    /\ cpc[c] = "idle"
    /\ ncalls[c] < MaxCalls
    /\ ncalls' = [ncalls EXCEPT ![c] = @ + 1]
    /\ cname' = [cname EXCEPT ![c] = name]
    /\ existing' = [existing EXCEPT ![c] = Search(name)]
    /\ cpc' = [cpc EXCEPT ![c] = "searched"]
    /\ overlapped' = (overlapped \/ \E d \in Callers \ {c} : InCall(d))
    /\ UNCHANGED << assistants, calls >>
    /\ UNCHANGED notClientVars

Returned_call(c, h, made) ==
    [caller |-> c, name |-> cname[c], handle |-> h, created |-> made]

\* if existing: return existing[0]
return_existing(c) ==
    /\ cpc[c] = "searched"
    /\ existing[c] # {}
    /\ calls' = Append(calls, Returned_call(c, First(existing[c]).assistant_id, FALSE))
    /\ cpc' = [cpc EXCEPT ![c] = "idle"]
    /\ UNCHANGED << assistants, cname, existing, ncalls, overlapped >>
    /\ UNCHANGED notClientVars

\* return await client.assistants.create(...)
assistants_create(c) ==
    /\ cpc[c] = "searched"
    /\ existing[c] = {}
    /\ assistants' = assistants \cup { Created(cname[c], "deep") }
    /\ calls' = Append(calls, Returned_call(c, NewId, TRUE))
    /\ cpc' = [cpc EXCEPT ![c] = "idle"]
    /\ UNCHANGED << cname, existing, ncalls, overlapped >>
    /\ UNCHANGED notClientVars

ClientNext ==
    \/ \E c \in Callers, name \in Names : assistants_search(c, name)
    \/ \E c \in Callers : return_existing(c)
    \/ \E c \in Callers : assistants_create(c)

ClientSpec == ClientInit /\ [][ClientNext]_vars

(***************************************************************************)
(* build_graph (src/agents/simple/graph.py, src/agents/deep/agent.py).     *)
(***************************************************************************)
\* no run is in progress
RunIdle ==
    /\ input = ExampleInput
    /\ context = NoOverrides
    /\ ctx = DefaultContext
    /\ retryMode = "continue"
    /\ state = InitState(input)
    /\ nextId = 1
    /\ active = {}
    /\ running = {}
    /\ view = state
    /\ writes = << >>
    /\ invoked = << >>
    /\ applied = << >>
    /\ status = "idle"
    /\ error = NoError
    /\ AgentIdle

DebugValues ==
    { True, False, None, Value("int", 0, ""), Value("int", 1, ""),
      Value("str", 0, ""), Value("str", 0, "false") }

\* the configs a caller may hold: without `configurable`, with a
\* `configurable` without `debug`, with a `debug` of any value
Configs ==
    { RunnableConfig({}, EmptyDict),
      RunnableConfig({"configurable"}, EmptyDict) }
    \cup { RunnableConfig({"configurable"}, Dict({"debug"}, v)) : v \in DebugValues }

\* Python's bool(v): False, None, 0 and "" are false, every other value of
\* these types is true
bool(v) ==
    CASE v.kind = "bool" -> v.n # 0
      [] v.kind = "int" -> v.n # 0
      [] v.kind = "str" -> v.s # ""
      [] OTHER -> FALSE

\* a faulty variant: debug is on only for the value True itself
build_graph_debug_is_true(cfg) ==
    Get(Get(cfg, "configurable", EmptyDict), "debug", False) = True

\* debug = bool(config.get("configurable", {}).get("debug", False))
build_graph_debug(cfg) ==
    bool(Get(Get(cfg, "configurable", EmptyDict), "debug", False))

\* the config after build_graph has returned: both dicts are only read
ConfigAfterBuild(cfg) == cfg

Graphs == {"simple", "deep"}

\* the nodes build_graph adds to the graph
NodesOf(g) ==
    IF g = "simple" THEN {"call_model"}
    ELSE {"prepare_research", "run_deep_agent", "finalize_research"}

CompiledGraph(g, cfg) ==
    [graph |-> g, nodes |-> {START} \cup NodesOf(g), debug |-> build_graph_debug(cfg),
     given |-> cfg, after |-> ConfigAfterBuild(cfg)]

BuildInit ==
    /\ RunIdle
    /\ ClientIdle
    /\ config = TestConfig
    /\ built = << >>
    /\ MainIdle
    /\ SimpleIdle

\* graph = build_graph(config)
build_graph(g) ==
    /\ Len(built) < MaxBuilds
    /\ built' = Append(built, CompiledGraph(g, config))
    /\ config' = ConfigAfterBuild(config)
    /\ UNCHANGED notBuildVars

\* the caller changes its config, or takes another one, between two builds
\* (debug_config["configurable"]["debug"] = True in the tests)
caller_sets_config(cfg) ==
    /\ Len(built) < MaxBuilds
    /\ cfg # config
    /\ config' = cfg
    /\ UNCHANGED built
    /\ UNCHANGED notBuildVars

BuildNext ==
    \/ \E g \in Graphs : build_graph(g)
    \/ \E cfg \in Configs : caller_sets_config(cfg)

BuildSpec == BuildInit /\ [][BuildNext]_vars

(***************************************************************************)
(* main (src/main.py).                                                     *)
(***************************************************************************)
\* the names main resolves, in the order it resolves them
MainNames == << "Creative Assistant", "Precise Assistant" >>

\* the service before main runs: any of these assistants may be there, with
\* or without its name in its metadata
StoredAssistants ==
    { {}, { Assistant(1, "Creative Assistant", "deep", "Creative Assistant") },
      { Assistant(1, "Precise Assistant", "deep", "Precise Assistant") },
      { Assistant(1, "Creative Assistant", "deep", "") },
      { Assistant(1, "Creative Assistant", "deep", "Creative Assistant"),
        Assistant(2, "Precise Assistant", "deep", "Precise Assistant") },
      { Assistant(1, "Creative Assistant", "deep", ""),
        Assistant(2, "Precise Assistant", "deep", "") } }

MainInit ==
    /\ RunIdle
    /\ BuildIdle
    /\ assistants \in StoredAssistants
    /\ cpc = [c \in Callers |-> "idle"]
    /\ cname = [c \in Callers |-> ""]
    /\ existing = [c \in Callers |-> {}]
    /\ calls = << >>
    /\ ncalls = [c \in Callers |-> 0]
    /\ overlapped = FALSE
    /\ mpc = "lookup"
    /\ midx = 1
    /\ mexisting = {}
    /\ handles = << >>
    /\ runs = << >>
    /\ mfail = NoFailure
    /\ SimpleIdle

\* an exception leaves main: there is no try statement in main.py, so it
\* leaves asyncio.run(main()) as well and the process ends with it
Raise(cause) ==
    /\ mpc' = "failed"
    /\ mfail' = [cause |-> cause, runs |-> Len(runs)]

\* a faulty variant: the run against an assistant is started as soon as that
\* assistant is resolved
AfterResolved_eager(i) == "start_run"

\* main resolves both assistants (main.py:48-65) and only then starts the
\* first run (main.py:73)
AfterResolved(i) == IF i < Len(MainNames) THEN "lookup" ELSE "start_run"

\* the assistant the next step is about, once assistant i is resolved
NextIndex(i, at) == IF at = "lookup" THEN i + 1 ELSE Len(runs) + 1

\* existing = await client.assistants.search(metadata={"name": name})
main_search ==
    /\ mpc = "lookup"
    /\ mexisting' = Search(MainNames[midx])
    /\ mpc' = "searched"
    /\ UNCHANGED << assistants, midx, handles, runs, mfail >>
    /\ UNCHANGED notMainVars

main_search_fails ==
    /\ mpc = "lookup"
    /\ Raise("search")
    /\ UNCHANGED << assistants, midx, mexisting, handles, runs >>
    /\ UNCHANGED notMainVars

\* if existing: return existing[0]
main_return_existing ==
    /\ mpc = "searched"
    /\ mexisting # {}
    /\ handles' = Append(handles, First(mexisting).assistant_id)
    /\ mpc' = AfterResolved(midx)
    /\ midx' = NextIndex(midx, mpc')
    /\ mexisting' = {}
    /\ UNCHANGED << assistants, runs, mfail >>
    /\ UNCHANGED notMainVars

\* return await client.assistants.create(...)
main_create ==
    /\ mpc = "searched"
    /\ mexisting = {}
    /\ assistants' = assistants \cup { Created(MainNames[midx], "deep") }
    /\ handles' = Append(handles, NewId)
    /\ mpc' = AfterResolved(midx)
    /\ midx' = NextIndex(midx, mpc')
    /\ UNCHANGED << mexisting, runs, mfail >>
    /\ UNCHANGED notMainVars

main_create_fails ==
    /\ mpc = "searched"
    /\ mexisting = {}
    /\ Raise("create")
    /\ UNCHANGED << assistants, midx, mexisting, handles, runs >>
    /\ UNCHANGED notMainVars

Run(a, n, at) == [assistant_id |-> a, chunks |-> n, stream |-> at]

\* async for chunk in client.runs.stream(None, assistant["assistant_id"], ...)
runs_stream_starts ==
    /\ mpc = "start_run"
    /\ runs' = Append(runs, Run(handles[midx], 0, "open"))
    /\ mpc' = "streaming"
    /\ UNCHANGED << assistants, midx, mexisting, handles, mfail >>
    /\ UNCHANGED notMainVars

runs_stream_fails_to_start ==
    /\ mpc = "start_run"
    /\ Raise("run_start")
    /\ UNCHANGED << assistants, midx, mexisting, handles, runs >>
    /\ UNCHANGED notMainVars

\* the body of the loop: one chunk is printed
stream_chunk ==
    /\ mpc = "streaming"
    /\ runs[Len(runs)].chunks < MaxChunks
    /\ runs' = [runs EXCEPT ![Len(runs)].chunks = @ + 1]
    /\ UNCHANGED << assistants, mpc, midx, mexisting, handles, mfail >>
    /\ UNCHANGED notMainVars

\* the stream ends: the loop is left and main goes on to the next run, or
\* returns after the last one
stream_ends ==
    /\ mpc = "streaming"
    /\ runs' = [runs EXCEPT ![Len(runs)].stream = "ended"]
    /\ mpc' = IF Len(runs) < Len(handles) THEN "start_run" ELSE "done"
    /\ midx' = IF Len(runs) < Len(handles) THEN Len(runs) + 1 ELSE midx
    /\ UNCHANGED << assistants, mexisting, handles, mfail >>
    /\ UNCHANGED notMainVars

stream_fails ==
    /\ mpc = "streaming"
    /\ runs' = [runs EXCEPT ![Len(runs)].stream = "broken"]
    /\ mpc' = "failed"
    /\ mfail' = [cause |-> "stream", runs |-> Len(runs)]
    /\ UNCHANGED << assistants, midx, mexisting, handles >>
    /\ UNCHANGED notMainVars

MainNext ==
    \/ main_search
    \/ main_search_fails
    \/ main_return_existing
    \/ main_create
    \/ main_create_fails
    \/ runs_stream_starts
    \/ runs_stream_fails_to_start
    \/ stream_chunk
    \/ stream_ends
    \/ stream_fails

MainSpec == MainInit /\ [][MainNext]_vars

(***************************************************************************)
(* The simple graph (src/agents/simple/graph.py).                          *)
(***************************************************************************)
\* a faulty variant: the reducer of the deep graph (add_messages)
add_by_id(left, right) == MergeById(left, right)

\* operator.add on two lists: the first followed by the second
add(left, right) == left \o right

SimpleStages == {"call_model"}

\* graph.add_edge(START, "call_model"); graph.add_edge("call_model", END)
SimpleEdges == { << START, "call_model" >>, << "call_model", END >> }

SimpleSucc(ns) == { e[2] : e \in { d \in SimpleEdges : d[1] \in ns } }

\* the messages a caller may send; two of them may carry the same id
SimpleMessages ==
    { Msg(0, "human", "Hello"), Msg(1, "human", "Hello"), Msg(1, "ai", "Hi"),
      Msg(2, "ai", "Hi") }

SimpleInputs ==
    UNION { [1..n -> SimpleMessages] : n \in 0..MaxSimpleMsgs }

\* what model.ainvoke may answer
Responses == { Msg(3, "ai", "LangGraph is a library."), Msg(3, "ai", "") }

\* State(): messages is an empty list, and the input is written to it
\* through the reducer
SimpleInit ==
    /\ RunIdle
    /\ ClientIdle
    /\ BuildIdle
    /\ MainIdle
    /\ sinput \in SimpleInputs
    /\ smessages = add(<< >>, sinput)
    /\ spc = "triggered"
    /\ scalls = 0
    /\ spending = << >>

\* the executor invokes the stage START leads to
simple_invoke ==
    /\ spc = "triggered"
    /\ SimpleSucc({START}) = {"call_model"}
    /\ spc' = "call_model"
    /\ scalls' = scalls + 1
    /\ UNCHANGED << sinput, smessages, spending >>
    /\ UNCHANGED notSimpleVars

\* response = await model.ainvoke(state.messages); return {"messages": [response]}
call_model_returns(response) ==
    /\ spc = "call_model"
    /\ spending' = << response >>
    /\ spc' = "returned"
    /\ UNCHANGED << sinput, smessages, scalls >>
    /\ UNCHANGED notSimpleVars

\* init_chat_model or model.ainvoke raises: the run fails
call_model_raises ==
    /\ spc = "call_model"
    /\ spc' = "failed"
    /\ UNCHANGED << sinput, smessages, scalls, spending >>
    /\ UNCHANGED notSimpleVars

\* the update is merged through the reducer; call_model leads to END
simple_end_step ==
    /\ spc = "returned"
    /\ smessages' = add(smessages, spending)
    /\ spending' = << >>
    /\ spc' = IF SimpleSucc({"call_model"}) = {END} THEN "done" ELSE "triggered"
    /\ UNCHANGED << sinput, scalls >>
    /\ UNCHANGED notSimpleVars

SimpleNext ==
    \/ simple_invoke
    \/ \E response \in Responses : call_model_returns(response)
    \/ call_model_raises
    \/ simple_end_step

SimpleSpec == SimpleInit /\ [][SimpleNext]_vars

(***************************************************************************)
(* Properties.                                                             *)
(***************************************************************************)
Order == << "prepare_research", "run_deep_agent", "finalize_research" >>

Ids(ms) == { ms[k].id : k \in 1..Len(ms) }

WritesTrue(e) ==
    "research_complete" \in e.update.has /\ e.update.research_complete = TRUE

\* the logged updates merged again, one after the other, from state s
RECURSIVE Replay(_, _)
Replay(s, log) ==
    IF log = << >> THEN s ELSE Replay(Merge(s, log[1].update, 0), Tail(log))

QueryOnly ==
    "query" \in input.has /\ input.query # "" /\ input.messages = << >>

\* C1: a run given a non-empty query and no messages that reaches END has
\* research_complete = true and a message log that starts with the human
\* message built from the query and holds at least one more entry.
C1_EndToEnd ==
    (status = "done" /\ QueryOnly) =>
        /\ "research_complete" \in state.has
        /\ state.research_complete = TRUE
        /\ Len(state.messages) >= 2
        /\ state.messages[1].role = "human"
        /\ state.messages[1].content = input.query

C1_Witness == status = "done" /\ QueryOnly /\ Len(state.messages) >= 3

\* C2: the stages are invoked in the order prepare_research, run_deep_agent,
\* finalize_research, each at most once and never two at a time, and a stage
\* is invoked only when the updates of all its predecessors are merged: the
\* State it reads is the merge of exactly those updates.
C2_Sequential ==
    /\ Len(invoked) <= Len(Order)
    /\ \A k \in 1..Len(invoked) : invoked[k] = Order[k]
    /\ Cardinality(running) <= 1
    /\ \A n \in running :
          /\ n = invoked[Len(invoked)]
          /\ Len(applied) = Len(invoked) - 1
          /\ \A k \in 1..Len(applied) : applied[k].stage = Order[k]
          /\ view = Replay(InitState(input), applied)

C2_Witness ==
    /\ "finalize_research" \in running
    /\ Len(applied) = 2
    /\ Len(view.messages) >= 2

\* C3 as stated: a merged update that holds `messages` leaves the log equal to
\* the previous log followed by every element of the update.
C3_Concatenation ==
    \A k \in 1..Len(applied) :
        "messages" \in applied[k].update.has =>
            applied[k].after.messages
                = applied[k].before.messages \o applied[k].update.messages

\* C3 as amended: the messages of an update are merged by id.  Every entry of
\* the previous log keeps its place, replaced by the update's message of the
\* same id if there is one; the update's messages with a new id follow, in
\* their order; the length grows by the number of new ids only.  So the
\* messages prepare_research read and returned leave the log as it was, and of
\* the list run_deep_agent returns only the agent's own messages are added.
C3_MergeById ==
    \A k \in 1..Len(applied) :
        LET e == applied[k]
            b == e.before.messages
            u == e.update.messages
            a == e.after.messages
            fresh == SelectSeq(u, LAMBDA m : m.id \notin Ids(b))
        IN  "messages" \in e.update.has =>
                /\ Cardinality(Ids(a)) = Len(a)
                /\ Len(a) = Len(b) + Cardinality(Ids(u) \ Ids(b))
                /\ \A i \in 1..Len(b) :
                      /\ a[i].id = b[i].id
                      /\ a[i] \in {b[i]} \cup { u[j] : j \in 1..Len(u) }
                /\ SubSeq(a, Len(b) + 1, Len(a)) = fresh
                /\ (e.stage = "prepare_research" /\ b # << >>) => a = b
                /\ e.stage = "run_deep_agent" => (a = u /\ Len(u) > Len(b))

C3_Witness ==
    \E k \in 1..Len(applied) :
        /\ applied[k].stage = "run_deep_agent"
        /\ Len(applied[k].before.messages) >= 1
        /\ Len(applied[k].after.messages)
               < Len(applied[k].before.messages) + Len(applied[k].update.messages)

\* C4 as stated: research_complete is written true by one stage only, and is
\* not true before that stage has written it.
C4_OneWriter ==
    \E t \in Stages :
        /\ \A k \in 1..Len(applied) : WritesTrue(applied[k]) => applied[k].stage = t
        /\ ("research_complete" \notin input.has
               /\ \A k \in 1..Len(applied) : applied[k].stage # t) =>
               ~("research_complete" \in state.has /\ state.research_complete)

\* C4 as amended: prepare_research writes research_complete = false, and from
\* the merge of its update to the merge of run_deep_agent's the flag is false;
\* true is written by run_deep_agent and again by finalize_research, and by no
\* other stage, so the flag is true from the merge of run_deep_agent's update on.
C4_TwoWriters ==
    /\ \A k \in 1..Len(applied) :
          /\ "research_complete" \in applied[k].update.has
          /\ WritesTrue(applied[k])
                <=> applied[k].stage \in {"run_deep_agent", "finalize_research"}
    /\ Len(applied) >= 1 => "research_complete" \in state.has
    /\ Len(applied) = 1 => state.research_complete = FALSE
    /\ Len(applied) >= 2 => state.research_complete = TRUE

C4_Witness ==
    /\ Len(applied) = 3
    /\ WritesTrue(applied[2])
    /\ WritesTrue(applied[3])

\* C5: when a stage fails the run halts there: the failure reaches the caller
\* with the name of the failing stage, no later stage is invoked, END is not
\* reached and the State is the one merged before the failing stage.
C5_HaltOnFailure ==
    apc = "raised" =>
        /\ status = "failed"
        /\ error.stage = "run_deep_agent"
        /\ error.kind # ""
        /\ invoked = << "prepare_research", "run_deep_agent" >>
        /\ Len(applied) = 1
        /\ state = applied[1].after

C5_Witness == apc = "raised" /\ error.kind = "model" /\ sandbox = FALSE

C8_ConcurrencyCeiling == InFlight <= ctx.max_concurrent_research_units

\* C9: no researcher delegate task goes beyond max_researcher_iterations
\* iterations.
C9_IterationCeiling ==
    \A j \in 0..MaxIter :
        j > ctx.max_researcher_iterations => tasks.running[j] = 0

\* C10: retry comes before fallback: after two failed calls on the primary
\* model the third call is on the primary model again, and when it succeeds
\* the invocation returns the primary model's reply after exactly these
\* three calls, none of them on the fallback model, and the run goes on.
C10_RetryBeforeFallback ==
    (Len(tried) >= 3 /\ ~tried[1].ok /\ ~tried[2].ok) =>
        /\ \A k \in 1..3 : tried[k].model = "primary"
        /\ tried[3].ok =>
              /\ Len(tried) = 3
              /\ replyFrom = "primary"
              /\ apc = "after_model"
              /\ status = "running"

C10_Witness ==
    /\ tried = << Call("primary", FALSE), Call("primary", FALSE),
                  Call("primary", TRUE) >>
    /\ replyFrom = "primary"

CallsOf(name) == { k \in 1..Len(calls) : calls[k].name = name }

\* C6: calls of get_or_create_assistant made one after the other with the
\* same name create at most one assistant and all return the same handle.
C6_Idempotent ==
    ~overlapped =>
        \A name \in Names :
            /\ Cardinality({ k \in CallsOf(name) : calls[k].created }) <= 1
            /\ \A k, l \in CallsOf(name) : calls[k].handle = calls[l].handle

C12_SandboxScoped ==
    /\ sandbox =>
          /\ status = "running"
          /\ "run_deep_agent" \in running
          /\ apc \in InsideWith
    /\ (status = "running" /\ apc \in InsideWith) => sandbox
    /\ ("finalize_research" \in running \/ status # "running") => ~sandbox

C12_Witness ==
    /\ "finalize_research" \in running
    /\ Len(applied) = 2
    /\ applied[2].stage = "run_deep_agent"
    /\ sandbox = FALSE

\* C13: when a run is cancelled while a stage is executing, the State is the
\* merge of the updates of the stages that completed before it and of
\* nothing else, the interrupted stage is the last stage invoked, and it has
\* left no update to be merged.
C13_CancelDiscards ==
    status = "cancelled" =>
        /\ error.kind = "cancelled"
        /\ error.stage \in running
        /\ error.stage = invoked[Len(invoked)]
        /\ Len(applied) = Len(invoked) - 1
        /\ \A k \in 1..Len(applied) : applied[k].stage = Order[k]
        /\ state = Replay(InitState(input), applied)
        /\ writes = << >>

C13_Witness ==
    /\ status = "cancelled"
    /\ error.stage = "run_deep_agent"
    /\ Len(applied) = 1
    /\ state.messages = << Msg(1, "human", input.query) >>
    /\ state.research_complete = FALSE

\* C14: the debug flag of every graph build_graph has returned is the truth
\* value of config["configurable"]["debug"] of the config it was given (true
\* unless the value is False, None, 0 or ""), and false when `configurable`
\* or `debug` is absent; the config is the same after the build as before.
C14_DebugFlag ==
    \A k \in 1..Len(built) :
        LET b == built[k]
            c == b.given
        IN  /\ b.debug =
                  /\ "configurable" \in c.has
                  /\ "debug" \in c.configurable.has
                  /\ c.configurable.debug \notin
                         { False, None, Value("int", 0, ""), Value("str", 0, "") }
            /\ b.after = c

C14_Witness ==
    /\ Len(built) = 2
    /\ built[1].given = TestConfig
    /\ built[1].debug = FALSE
    /\ built[2].given.configurable.debug = Value("str", 0, "false")
    /\ built[2].debug = TRUE
    /\ built[2].graph # built[1].graph

\* C15: main resolves both assistants before it starts a run, starts one run
\* against each, in that order, the second only when the stream of the first
\* has ended; it returns when both streams have ended; a failed lookup,
\* creation, run start or stream ends main with that failure, and no run is
\* started after it.
C15_MainOrder ==
    /\ Len(runs) >= 1 => Len(handles) = Len(MainNames)
    /\ Len(runs) <= Len(MainNames)
    /\ \A k \in 1..Len(runs) :
          /\ runs[k].assistant_id = handles[k]
          /\ k < Len(runs) => runs[k].stream = "ended"
          /\ \A l \in 1..Len(runs) : runs[l].assistant_id = runs[k].assistant_id => l = k
    /\ \A k \in 1..Len(handles) :
          \E a \in assistants : a.assistant_id = handles[k] /\ a.name = MainNames[k]
    /\ mpc = "done" =>
          /\ Len(runs) = Len(MainNames)
          /\ \A k \in 1..Len(runs) : runs[k].stream = "ended"
          /\ mfail = NoFailure
    /\ mpc = "failed" =>
          /\ mfail.cause \in {"search", "create", "run_start", "stream"}
          /\ Len(runs) = mfail.runs
          /\ mfail.cause \in {"search", "create"} => runs = << >>
          /\ mfail.cause = "stream" => runs[Len(runs)].stream = "broken"
    /\ mpc # "failed" => mfail = NoFailure

C15_Witness ==
    /\ mpc = "done"
    /\ Len(runs) = 2
    /\ runs[1].chunks >= 1
    /\ runs[2].chunks >= 1
    /\ handles[1] # handles[2]

\* C16: among calls of get_or_create_assistant some of which were in progress
\* at the same time, at most one creates an assistant of a given name and all
\* calls with that name return the same handle.
C16_ConcurrentIdempotent ==
    overlapped =>
        \A name \in Names :
            /\ Cardinality({ a \in assistants : a.name = name }) <= 1
            /\ \A k, l \in CallsOf(name) : calls[k].handle = calls[l].handle

\* C17: at every point of a run the Context holds, for each of its four
\* fields, the value the caller gave for it at the start of the run, or the
\* field's default (claude-sonnet-4-5-20250929, 0.0, 3, 3) when the caller
\* gave none; what run_deep_agent has read from it (the model it initialised,
\* the ceilings in its instructions) are these values.
C17_ContextFixed ==
    /\ ctx.model_name =
          IF "model_name" \in context.has THEN context.model_name
          ELSE "claude-sonnet-4-5-20250929"
    /\ ctx.temperature =
          IF "temperature" \in context.has THEN context.temperature ELSE "0.0"
    /\ ctx.max_concurrent_research_units =
          IF "max_concurrent_research_units" \in context.has
          THEN context.max_concurrent_research_units ELSE 3
    /\ ctx.max_researcher_iterations =
          IF "max_researcher_iterations" \in context.has
          THEN context.max_researcher_iterations ELSE 3
    /\ model # NoModel =>
          /\ model.model = ctx.model_name
          /\ model.temperature = ctx.temperature
    /\ system_prompt # NoPrompt =>
          /\ system_prompt.max_concurrent_research_units
                = ctx.max_concurrent_research_units
          /\ system_prompt.max_researcher_iterations = ctx.max_researcher_iterations
    /\ apc \in InsideWith => (model # NoModel /\ system_prompt # NoPrompt)

C17_Witness ==
    /\ "finalize_research" \in running
    /\ context.has = {"model_name", "temperature"}
    /\ model = [model |-> "gpt-4o-mini", temperature |-> "0.1"]
    /\ ctx.max_concurrent_research_units = 3
    /\ system_prompt.max_researcher_iterations = 3

\* C18: the update of prepare_research holds one new human message, built
\* from `query`, exactly when `query` is non-empty and the log is empty, and
\* the log is then that message; otherwise the update holds the log as it
\* was and the log is left as it was.  `query` is never written: it is in the
\* State exactly when it was in the input, with the input's value.
C18_SeedOnlyWhenNeeded ==
    /\ \A k \in 1..Len(applied) :
          LET e == applied[k]
              b == e.before
              q == IF "query" \in b.has THEN b.query ELSE ""
          IN  e.stage = "prepare_research" =>
                  IF q # "" /\ b.messages = << >>
                  THEN /\ Len(e.update.messages) = 1
                       /\ e.update.messages[1].role = "human"
                       /\ e.update.messages[1].content = q
                       /\ e.after.messages = e.update.messages
                  ELSE /\ e.update.messages = b.messages
                       /\ e.after.messages = b.messages
    /\ state.query = input.query
    /\ "query" \in state.has <=> "query" \in input.has

C18_Witness ==
    /\ status = "done"
    /\ applied[1].stage = "prepare_research"
    /\ applied[1].before.query = Query
    /\ Len(applied[1].before.messages) = 1
    /\ applied[1].after.messages = applied[1].before.messages
    /\ \A k \in 1..Len(state.messages) : state.messages[k].content # Query
    /\ state.query = Query

\* C19: the simple graph is START, call_model, END in a line; call_model is
\* invoked at most once in a run and exactly once in a run that reaches END,
\* and such a run ends with `messages` equal to the input messages, as they
\* were and in their order, followed by the one response of the model.
C19_SimpleRun ==
    /\ SimpleSucc({START}) = SimpleStages
    /\ SimpleSucc(SimpleStages) = {END}
    /\ Cardinality(SimpleStages) = 1
    /\ scalls <= 1
    /\ spc \in {"call_model", "returned", "failed"} => smessages = sinput
    /\ spc = "done" =>
          /\ scalls = 1
          /\ Len(smessages) = Len(sinput) + 1
          /\ SubSeq(smessages, 1, Len(sinput)) = sinput
          /\ smessages[Len(smessages)] \in Responses

C19_Witness ==
    /\ spc = "done"
    /\ Len(sinput) = 2
    /\ sinput[1].id = sinput[2].id
    /\ sinput[1] # sinput[2]
    /\ smessages = sinput \o << Msg(3, "ai", "LangGraph is a library.") >>

====
